---- MODULE Spec2Model ----
(***************************************************************************)
(* Model of scripts/sync_workflows.py: the workflow synchronisation run    *)
(* (main and its four passes) and the patch engine (apply_modifications    *)
(* and set_nested_value).                                                  *)
(*                                                                         *)
(* Texts that the code inspects character by character (override entries,  *)
(* key paths, override values) are sequences of one-character strings.     *)
(* Texts that the code only hands to the YAML library or to the file       *)
(* system (fetched workflow files, file names) are TLA+ strings.           *)
(***************************************************************************)
EXTENDS Integers, Sequences, FiniteSets, TLC

VARIABLES
    pc,        \* position of main: "start", "unique", "keep", "modify", "drift", "done" ("idle": not run)
    exit,      \* exit status of the process: -1 while running, then 0 or 1
    token,     \* GITHUB_TOKEN is set
    settingsFile, \* "missing", "invalid" or "ok": what load_settings finds
    settings,  \* the loaded settings: keep, modify (keys in order), uniq, ignore
    files,     \* the local workflow directory: name -> entry
    idx,       \* index of the next entry of the pass in progress
    log,       \* one record per keep/modify entry processed so far
    passes,    \* the passes that ran to completion
    found,     \* unique-local names reported present
    reported,  \* names reported by the drift check
    ppc,       \* position of apply_modifications: "idle", "call", "loop", "returned", "raised"
    ptext,     \* its content argument
    pups,      \* the entries of its updates argument consumed so far
    pdoc,      \* yaml_obj
    pprev,     \* yaml_obj before the last entry was applied
    pwarn      \* number of "Skipping invalid update format" warnings logged

vars == <<pc, exit, token, settingsFile, settings, files, idx, log, passes, found,
          reported, ppc, ptext, pups, pdoc, pprev, pwarn>>
mainVars == <<pc, exit, token, settingsFile, settings, files, idx, log, passes, found, reported>>
patchVars == <<ppc, ptext, pups, pdoc, pprev, pwarn>>

(***************************************************************************)
(* Bounds                                                                  *)
(***************************************************************************)
\* longest updates list handed to apply_modifications on its own
MaxUpdates == 3
\* longest updates list of a modify entry within a run of main
MaxRunUpdates == 1

(***************************************************************************)
(* Character-level text operations (Python str methods used by the code)   *)
(***************************************************************************)
\* str.isspace for one character
IsWs(c) == c = " "

\* c in s
HasChar(s, c) == \E i \in 1..Len(s) : s[i] = c

\* index of the first c in s, 0 when there is none
IndexOf(s, c) ==
    IF HasChar(s, c) THEN CHOOSE i \in 1..Len(s) : s[i] = c /\ \A j \in 1..(i-1) : s[j] # c
    ELSE 0

\* s[from..]
Drop(s, n) == SubSeq(s, n + 1, Len(s))

RECURSIVE LStrip(_)
LStrip(s) == IF s # <<>> /\ IsWs(s[1]) THEN LStrip(Tail(s)) ELSE s

RECURSIVE RStrip(_)
RStrip(s) == IF s # <<>> /\ IsWs(s[Len(s)]) THEN RStrip(SubSeq(s, 1, Len(s) - 1)) ELSE s

\* str.strip()
Strip(s) == RStrip(LStrip(s))

\* str.isspace(): non-empty and nothing but whitespace
IsSpace(s) == s # <<>> /\ \A i \in 1..Len(s) : IsWs(s[i])

\* str.split(c): the pieces between the occurrences of c
RECURSIVE Split(_, _)
Split(s, c) ==
    IF ~HasChar(s, c) THEN <<s>>
    ELSE <<SubSeq(s, 1, IndexOf(s, c) - 1)>> \o Split(Drop(s, IndexOf(s, c)), c)

\* str.split(c, 1): the text before the first c and the text after it
SplitFirst(s, c) == <<SubSeq(s, 1, IndexOf(s, c) - 1), Drop(s, IndexOf(s, c))>>

\* value.startswith("${{")
StartsWithExpr(s) == Len(s) >= 3 /\ s[1] = "$" /\ s[2] = "{" /\ s[3] = "{"

(***************************************************************************)
(* YAML values. Every value is a record of one shape: t is the type, s the *)
(* text of a scalar, m the mapping (key text -> value).                    *)
(***************************************************************************)
Node(t, s, m) == [t |-> t, s |-> s, m |-> m]
Map(f) == Node("map", <<>>, f)            \* a mapping (CommentedMap / dict)
EmptyMap == Map(<<>>)                      \* {}
Str(x) == Node("str", x, <<>>)            \* a Python str
Plain(x) == Node("plain", x, <<>>)        \* a PlainScalarString
None == Node("none", <<>>, <<>>)          \* Python None (YAML null)
SeqNode == Node("seq", <<>>, <<>>)        \* a non-empty sequence
YamlError == Node("yamlerror", <<>>, <<>>)  \* the loader raised YAMLError
TypeError == Node("typeerror", <<>>, <<>>)  \* the call raised TypeError
Missing == Node("missing", <<>>, <<>>)    \* no value at a path

\* f with key k bound to v
Put(f, k, v) == [x \in (DOMAIN f) \cup {k} |-> IF x = k THEN v ELSE f[x]]

\* Python truthiness of a value (if content: / if modified_yaml:)
Truthy(n) ==
    CASE n.t = "map" -> DOMAIN n.m # {}
      [] n.t \in {"str", "plain"} -> n.s # <<>>
      [] n.t = "seq" -> TRUE
      [] OTHER -> FALSE

(***************************************************************************)
(* The safe YAML loader on a one-line value text (temp_yaml.load, line     *)
(* 128). The fragment covered: empty and comment-only texts, a quoted      *)
(* scalar, a plain scalar, and a one-line block mapping "key: value".      *)
(* Plain scalars are strings; no text of the model reads as a number or a  *)
(* boolean, and none starts with a flow indicator.                         *)
(***************************************************************************)
\* index of the " #" that starts a trailing comment of a plain line, else 0
CommentAt(s) ==
    LET at == {i \in 2..Len(s) : s[i] = "#" /\ IsWs(s[i-1])}
    IN IF at = {} THEN 0 ELSE CHOOSE i \in at : \A j \in at : i <= j

\* index of the ":" that ends a plain mapping key (followed by a space or the end), else 0
KeyEndAt(s) ==
    LET at == {i \in 1..Len(s) : s[i] = ":" /\ (i = Len(s) \/ IsWs(s[i+1]))}
    IN IF at = {} THEN 0 ELSE CHOOSE i \in at : \A j \in at : i <= j

\* only whitespace or a comment follows
OnlyComment(s) == LStrip(s) = <<>> \/ (IsWs(s[1]) /\ LStrip(s)[1] = "#")

\* a quoted scalar: the text between the quotes, nothing but a comment after it
QuotedLoad(s) ==
    LET rest == Tail(s)
        close == IndexOf(rest, s[1])
    IN IF close = 0 THEN YamlError
       ELSE IF OnlyComment(Drop(rest, close)) THEN Str(SubSeq(rest, 1, close - 1))
       ELSE YamlError

\* a scalar of a mapping value or of a whole plain line (comment already cut)
ScalarLoad(s) ==
    IF s = <<>> THEN None
    ELSE IF s[1] \in {"\"", "'"} THEN QuotedLoad(s)
    ELSE IF KeyEndAt(s) # 0 THEN YamlError
    ELSE Str(s)

\* a plain line: a scalar, or "key: value"
PlainLoad(s) ==
    LET body == IF CommentAt(s) = 0 THEN RStrip(s) ELSE RStrip(SubSeq(s, 1, CommentAt(s) - 1))
        k == KeyEndAt(body)
        val == ScalarLoad(LStrip(Drop(body, k)))
    IN IF k = 0 THEN Str(body)
       ELSE IF val = YamlError THEN YamlError
       ELSE Map(Put(<<>>, RStrip(SubSeq(body, 1, k - 1)), val))

SafeLoad(v) ==
    LET s == LStrip(v)
    IN IF s = <<>> THEN None
       ELSE IF s[1] = "#" THEN None
       ELSE IF s[1] \in {"\"", "'"} THEN QuotedLoad(s)
       ELSE PlainLoad(s)

(***************************************************************************)
(* set_nested_value                                                        *)
(***************************************************************************)
\* lines 115-131: the value stored at the final key
StoreValue(value) ==
    IF /\ value # <<>>
       /\ ~StartsWithExpr(value)
       /\ ~HasChar(value, "\"")
       /\ ~HasChar(value, "'")
       /\ ~IsSpace(value)
    THEN Plain(value)
    ELSE IF SafeLoad(value) = YamlError THEN Str(value) ELSE SafeLoad(value)

\* set_nested_value with a slip: a final key that exists keeps its value
RECURSIVE set_nested_value_keep(_, _, _)
set_nested_value_keep(data, keys, value) ==
    IF data.t # "map" THEN TypeError
    ELSE IF Len(keys) = 1
         THEN IF keys[1] \in DOMAIN data.m THEN data
              ELSE Map(Put(data.m, keys[1], StoreValue(value)))
    ELSE LET child == IF keys[1] \in DOMAIN data.m THEN data.m[keys[1]] ELSE EmptyMap
             r == set_nested_value_keep(child, Tail(keys), value)
         IN IF r = TypeError THEN TypeError ELSE Map(Put(data.m, keys[1], r))

\* set_nested_value with a slip: every intermediate level is made anew
RECURSIVE set_nested_value_fresh(_, _, _)
set_nested_value_fresh(data, keys, value) ==
    IF data.t # "map" THEN TypeError
    ELSE IF Len(keys) = 1 THEN Map(Put(data.m, keys[1], StoreValue(value)))
    ELSE Map(Put(data.m, keys[1], set_nested_value_fresh(EmptyMap, Tail(keys), value)))

\* lines 103-131: data with value set at keys. Descending into, or assigning
\* a key of, anything but a mapping raises TypeError.
RECURSIVE set_nested_value(_, _, _)
set_nested_value(data, keys, value) ==
    IF data.t # "map" THEN TypeError
    ELSE IF Len(keys) = 1 THEN Map(Put(data.m, keys[1], StoreValue(value)))
    ELSE LET child == IF keys[1] \in DOMAIN data.m THEN data.m[keys[1]] ELSE EmptyMap
             r == set_nested_value(child, Tail(keys), value)
         IN IF r = TypeError THEN TypeError ELSE Map(Put(data.m, keys[1], r))

(***************************************************************************)
(* Texts of whole files                                                    *)
(***************************************************************************)
\* the text of an upstream file
Text(raw) == [raw |-> raw, doc |-> Missing]

\* yaml.dump (line 179): the text written for a document. It is represented by
\* the document it denotes: the style of a PlainScalarString is not part of it.
RECURSIVE Unstyled(_)
Unstyled(n) ==
    CASE n.t = "plain" -> Str(n.s)
      [] n.t = "map" -> Map([k \in DOMAIN n.m |-> Unstyled(n.m[k])])
      [] OTHER -> n
Dump(doc) == [raw |-> "<dump>", doc |-> Unstyled(doc)]

ka == <<"a">>
kb == <<"b">>
kc == <<"c">>
vx == <<"x">>
vz == <<"z">>

\* yaml.load (line 138) on the file texts of the model
RoundTripLoad(content) ==
    CASE content.raw = "<dump>" -> content.doc
      [] content.raw = "" -> None
      [] content.raw = "# note" -> None
      [] content.raw = "a: [" -> YamlError
      [] content.raw = "{}" -> EmptyMap
      [] content.raw = "a: x" -> Map(Put(<<>>, ka, Str(vx)))
      [] content.raw = "a:\n  c: z\nb: z" ->
            Map(Put(Put(<<>>, ka, Map(Put(<<>>, kc, Str(vz)))), kb, Str(vz)))
      [] content.raw = "- x" -> SeqNode
      [] OTHER -> YamlError

(***************************************************************************)
(* apply_modifications                                                     *)
(***************************************************************************)
\* an entry of an updates list, as the settings loader hands it over
DictUpdate(items) == [form |-> "dict", text |-> <<>>, items |-> items]
StrUpdate(text) == [form |-> "str", text |-> text, items |-> <<>>]
OtherUpdate == [form |-> "other", text |-> <<>>, items |-> <<>>]

\* lines 150-153: every item of a mapping entry, in order
RECURSIVE ApplyItems(_, _)
ApplyItems(doc, items) ==
    IF items = <<>> \/ doc = TypeError THEN doc
    ELSE ApplyItems(set_nested_value(doc, Split(items[1][1], "."), items[1][2]), Tail(items))

\* ApplyString with a slip: no check for the colon, so the split of a string
\* without one raises
ApplyStringUnchecked(doc, update) ==
    IF ~HasChar(update, ":") THEN TypeError
    ELSE set_nested_value(doc,
                          Split(Strip(SplitFirst(update, ":")[1]), "."),
                          Strip(SplitFirst(update, ":")[2]))

\* lines 154-166: an entry in string form
ApplyString(doc, update) ==
    IF ~HasChar(update, ":") THEN doc
    ELSE set_nested_value(doc,
                          Split(Strip(SplitFirst(update, ":")[1]), "."),
                          Strip(SplitFirst(update, ":")[2]))

\* lines 146-168: one iteration of the loop over updates
ApplyUpdate(doc, update) ==
    CASE update.form = "dict" -> ApplyItems(doc, update.items)
      [] update.form = "str" -> ApplyString(doc, update.text)
      [] OTHER -> doc

\* lines 156-158 and 167-168: the iteration logs the skip warning
Warns(update) ==
    \/ update.form = "str" /\ ~HasChar(update.text, ":")
    \/ update.form \notin {"dict", "str"}

\* lines 146-170: the loop
RECURSIVE ApplyAll(_, _)
ApplyAll(doc, updates) ==
    IF updates = <<>> \/ doc = TypeError THEN doc
    ELSE ApplyAll(ApplyUpdate(doc, updates[1]), Tail(updates))

\* lines 134-170: None for empty or unparsable content, TypeError when an
\* override raises, else the patched document
apply_modifications(content, updates) ==
    IF RoundTripLoad(content) \in {None, YamlError} THEN None
    ELSE ApplyAll(RoundTripLoad(content), updates)

(***************************************************************************)
(* Inputs of the patch engine                                              *)
(***************************************************************************)
vy == <<"y">>
pA == <<"a">>
pB == <<"b">>
pC == <<"c">>
pAB == <<"a", ".", "b">>
pABC == <<"a", ".", "b", ".", "c">>
vExpr == <<"$", "{", "{", "x", "}", "}">>                    \* ${{x}}
vExprComment == vExpr \o <<" ", "#", "c">>                    \* ${{x}} #c
vExprColon == <<"$", "{", "{", "x", ":", " ", "y", "}", "}">> \* ${{x: y}}
vQuoted == <<"\"", "x", "\"">>                                \* "x"
vOpenQuote == <<"\"", "x">>                                   \* "x
One(path, value) == DictUpdate(<< <<path, value>> >>)

\* override entries of a settings file
Updates ==
    { One(pABC, vx), One(pAB, vx), One(pAB, vy), One(pA, vy),
      One(pB, vQuoted), One(pB, <<>>), One(pC, vOpenQuote), One(pC, vExprColon),
      DictUpdate(<< <<pA, vx>>, <<pB, vy>> >>),
      DictUpdate(<<>>),
      StrUpdate(<<"c", ":", " ">> \o vExpr),
      StrUpdate(<<"c", " ", ":">> \o vExprComment),
      StrUpdate(<<"a", "b">>),
      OtherUpdate }

\* contents handed to apply_modifications
PatchTexts ==
    { Text("{}"), Text("a: x"), Text("a:\n  c: z\nb: z"), Text("- x"), Text(""), Text("a: [") }

(***************************************************************************)
(* apply_modifications, one loop iteration per step                        *)
(***************************************************************************)
\* lines 136-144: load the content
PLoad ==
    /\ ppc = "call"
    /\ IF RoundTripLoad(ptext) \in {None, YamlError}
       THEN ppc' = "returned" /\ pdoc' = None
       ELSE ppc' = "loop" /\ pdoc' = RoundTripLoad(ptext)
    /\ pprev' = pdoc'
    /\ UNCHANGED <<ptext, pups, pwarn>>
    /\ UNCHANGED mainVars

\* lines 146-168: the next entry of updates
PUpdate(u) ==
    /\ ppc = "loop"
    /\ Len(pups) < MaxUpdates
    /\ pups' = Append(pups, u)
    /\ pprev' = pdoc
    /\ pdoc' = ApplyUpdate(pdoc, u)
    /\ ppc' = IF ApplyUpdate(pdoc, u) = TypeError THEN "raised" ELSE "loop"
    /\ pwarn' = IF Warns(u) THEN pwarn + 1 ELSE pwarn
    /\ UNCHANGED ptext
    /\ UNCHANGED mainVars

\* lines 148-153
PDict == \E u \in Updates : u.form = "dict" /\ PUpdate(u)
\* lines 154-166
PString == \E u \in Updates : u.form = "str" /\ PUpdate(u)
\* lines 167-168
POther == \E u \in Updates : u.form = "other" /\ PUpdate(u)

\* line 170
PReturn ==
    /\ ppc = "loop"
    /\ ppc' = "returned"
    /\ UNCHANGED <<ptext, pups, pdoc, pprev, pwarn>>
    /\ UNCHANGED mainVars

(***************************************************************************)
(* The run of main                                                         *)
(***************************************************************************)
Names == {"a.yaml", "b.yml", "c.yaml", "d.yaml", "n.txt"}

\* WORKFLOWS_DIR.glob("*.yaml") and glob("*.yml") (lines 232-233)
MatchesYaml(n) == n \in {"a.yaml", "c.yaml", "d.yaml"}
MatchesYml(n) == n \in {"b.yml"}

Range(q) == {q[i] : i \in DOMAIN q}

Settings(keep, modify, uniq, ignore) ==
    [keep |-> keep, modify |-> modify, uniq |-> uniq, ignore |-> ignore]

\* settings documents (lines 274-278)
SettingsChoices ==
    { Settings(<<"a.yaml", "b.yml">>, <<>>, <<"c.yaml">>, {"d.yaml"}),
      Settings(<<>>, <<"a.yaml", "b.yml">>, <<>>, {}),
      Settings(<<"a.yaml">>, <<"b.yml">>, <<"c.yaml">>, {"d.yaml"}),
      Settings(<<"a.yaml", "a.yaml">>, <<>>, <<>>, {"b.yml"}) }

NoContent == [raw |-> "<none>", doc |-> Missing]
Absent == [kind |-> "absent", content |-> NoContent]
File(content) == [kind |-> "file", content |-> content]
Dir == [kind |-> "dir", content |-> NoContent]

\* local workflow directories before the run
LocalChoices ==
    { [n \in Names |-> Absent],
      [n \in Names |-> File(Text("a: x"))],
      [n \in Names |-> IF n \in {"a.yaml", "d.yaml"} THEN Dir
                       ELSE IF n = "c.yaml" THEN Absent ELSE File(Text("{}"))] }

\* what requests.get does (line 80): a response, or a RequestException
Response(status, text) == [status |-> status, text |-> text]
UpstreamTexts == {"", "# note", "a: [", "{}", "a: x", "- x"}
Responses ==
    {Response("404", "Not Found"), Response("500", "Server Error"), Response("exception", "")}
        \cup {Response("200", t) : t \in UpstreamTexts}

\* download_workflow with a slip: the body of any response is returned
download_workflow_any_status(resp) ==
    IF resp.status # "exception" THEN Text(resp.text) ELSE NoContent

\* lines 68-100
download_workflow(resp) ==
    IF resp.status = "200" THEN Text(resp.text) ELSE NoContent

\* if content: (lines 205, 215)
HasContent(content) == content # NoContent /\ content.raw # ""

\* lines 173-184: the directory entry after the write; an OSError leaves it as it was
write_workflow_file(entry, content, oserror) ==
    IF oserror \/ entry.kind = "dir" THEN entry ELSE File(content)

\* override entries of the modify section
RunUpdates == { One(pAB, vx), One(pA, vy), StrUpdate(<<"a", "b">>), OtherUpdate }
RunUpdateLists == UNION {[1..k -> RunUpdates] : k \in 0..MaxRunUpdates}

Event(pass, name, resp, updates, patched, wrote, content) ==
    [pass |-> pass, name |-> name, resp |-> resp, updates |-> updates,
     patched |-> patched, wrote |-> wrote, content |-> content]

\* lines 265-268
NoToken ==
    /\ pc = "start" /\ ~token
    /\ pc' = "done" /\ exit' = 1
    /\ UNCHANGED <<token, settingsFile, settings, files, idx, log, passes, found, reported>>
    /\ UNCHANGED patchVars

\* lines 55-57
SettingsMissing ==
    /\ pc = "start" /\ token /\ settingsFile = "missing"
    /\ pc' = "done" /\ exit' = 1
    /\ UNCHANGED <<token, settingsFile, settings, files, idx, log, passes, found, reported>>
    /\ UNCHANGED patchVars

\* lines 58-60
SettingsInvalid ==
    /\ pc = "start" /\ token /\ settingsFile = "invalid"
    /\ pc' = "done" /\ exit' = 1
    /\ UNCHANGED <<token, settingsFile, settings, files, idx, log, passes, found, reported>>
    /\ UNCHANGED patchVars

\* lines 270-287
Begin ==
    /\ pc = "start" /\ token /\ settingsFile = "ok"
    /\ pc' = "unique"
    /\ UNCHANGED <<exit, token, settingsFile, settings, files, idx, log, passes, found, reported>>
    /\ UNCHANGED patchVars

\* lines 187-196
check_unique_tier4_workflows ==
    /\ pc = "unique"
    /\ found' = {n \in Range(settings.uniq) : files[n].kind # "absent"}
    /\ passes' = passes \cup {"unique"}
    /\ pc' = "keep" /\ idx' = 1
    /\ UNCHANGED <<exit, token, settingsFile, settings, files, log, reported>>
    /\ UNCHANGED patchVars

\* lines 202-206: one keep entry
KeepEntry(name, resp, oserror) ==
    LET content == download_workflow(resp)
    IN /\ files' = IF HasContent(content)
                   THEN [files EXCEPT ![name] = write_workflow_file(@, content, oserror)]
                   ELSE files
       /\ log' = Append(log, Event("keep", name, resp, <<>>, None, HasContent(content),
                                   IF HasContent(content) THEN content ELSE NoContent))

KeepStep ==
    /\ pc = "keep" /\ idx <= Len(settings.keep)
    /\ \E resp \in Responses, oserror \in BOOLEAN :
          KeepEntry(settings.keep[idx], resp, oserror)
    /\ idx' = idx + 1
    /\ UNCHANGED <<pc, exit, token, settingsFile, settings, passes, found, reported>>
    /\ UNCHANGED patchVars

\* line 202: the loop ends
KeepDone ==
    /\ pc = "keep" /\ idx > Len(settings.keep)
    /\ passes' = passes \cup {"keep"}
    /\ pc' = "modify" /\ idx' = 1
    /\ UNCHANGED <<exit, token, settingsFile, settings, files, log, found, reported>>
    /\ UNCHANGED patchVars

\* lines 212-221: one modify entry; patched is what apply_modifications gives
ModifyEntry(name, resp, updates, oserror) ==
    LET content == download_workflow(resp)
        patched == IF HasContent(content) THEN apply_modifications(content, updates) ELSE None
        writes == HasContent(content) /\ patched # TypeError /\ Truthy(patched)
    IN /\ files' = IF writes
                   THEN [files EXCEPT ![name] = write_workflow_file(@, Dump(patched), oserror)]
                   ELSE files
       /\ log' = Append(log, Event("modify", name, resp, updates, patched, writes,
                                   IF writes THEN Dump(patched) ELSE NoContent))
       /\ IF patched = TypeError
          THEN pc' = "done" /\ exit' = 1 /\ idx' = idx
          ELSE pc' = pc /\ exit' = exit /\ idx' = idx + 1

\* The updates of an entry are read from the settings when the entry is reached
\* (line 216), so they are drawn there. An uncaught TypeError ends the process
\* with exit status 1.
ModifyStep ==
    /\ pc = "modify" /\ idx <= Len(settings.modify)
    /\ \E resp \in Responses, updates \in RunUpdateLists, oserror \in BOOLEAN :
          ModifyEntry(settings.modify[idx], resp, updates, oserror)
    /\ UNCHANGED <<token, settingsFile, settings, passes, found, reported>>
    /\ UNCHANGED patchVars

\* line 212: the loop ends
ModifyDone ==
    /\ pc = "modify" /\ idx > Len(settings.modify)
    /\ passes' = passes \cup {"modify"}
    /\ pc' = "drift"
    /\ UNCHANGED <<exit, token, settingsFile, settings, files, idx, log, found, reported>>
    /\ UNCHANGED patchVars

\* ExtraWorkflows with a slip: the ignore section counts as expected
ExtraWorkflowsIgnoring(dir, cfg) ==
    LET local_workflows == {n \in Names : (MatchesYaml(n) \/ MatchesYml(n)) /\ dir[n].kind = "file"}
        expected_workflows ==
            Range(cfg.keep) \cup Range(cfg.modify) \cup Range(cfg.uniq) \cup cfg.ignore
    IN local_workflows \ expected_workflows

\* lines 232-238: the names check_extra_workflows reports
ExtraWorkflows(dir, cfg) ==
    LET local_workflows == {n \in Names : MatchesYaml(n) /\ dir[n].kind = "file"}
                               \cup {n \in Names : MatchesYml(n) /\ dir[n].kind = "file"}
        expected_workflows == Range(cfg.keep) \cup Range(cfg.modify) \cup Range(cfg.uniq)
    IN local_workflows \ expected_workflows

\* lines 224-258, then 295 and the normal end of the process. main has created
\* the directory (line 286), so the branch of line 231 is the one taken.
check_extra_workflows ==
    /\ pc = "drift"
    /\ reported' = ExtraWorkflows(files, settings)
    /\ passes' = passes \cup {"drift"}
    /\ pc' = "done" /\ exit' = 0
    /\ UNCHANGED <<token, settingsFile, settings, files, idx, log, found>>
    /\ UNCHANGED patchVars

(***************************************************************************)
(* Specifications                                                          *)
(***************************************************************************)
PatchIdle ==
    /\ ppc = "idle" /\ ptext = NoContent /\ pups = <<>>
    /\ pdoc = None /\ pprev = None /\ pwarn = 0

MainIdle ==
    /\ pc = "idle" /\ exit = -1 /\ token = TRUE /\ settingsFile = "ok"
    /\ settings = Settings(<<>>, <<>>, <<>>, {})
    /\ files = [n \in Names |-> Absent]
    /\ idx = 1 /\ log = <<>> /\ passes = {} /\ found = {} /\ reported = {}

\* a run of main
Init ==
    /\ pc = "start" /\ exit = -1
    /\ token \in BOOLEAN
    /\ settingsFile \in {"missing", "invalid", "ok"}
    /\ settings \in SettingsChoices
    /\ files \in LocalChoices
    /\ idx = 1 /\ log = <<>> /\ passes = {} /\ found = {} /\ reported = {}
    /\ PatchIdle

Next ==
    \/ NoToken
    \/ SettingsMissing
    \/ SettingsInvalid
    \/ Begin
    \/ check_unique_tier4_workflows
    \/ KeepStep
    \/ KeepDone
    \/ ModifyStep
    \/ ModifyDone
    \/ check_extra_workflows

Spec == Init /\ [][Next]_vars

\* a call of apply_modifications
PatchInit ==
    /\ MainIdle
    /\ ppc = "call"
    /\ ptext \in PatchTexts
    /\ pups = <<>> /\ pdoc = None /\ pprev = None /\ pwarn = 0

PatchNext ==
    \/ PLoad
    \/ PDict
    \/ PString
    \/ POther
    \/ PReturn

PatchSpec == PatchInit /\ [][PatchNext]_vars

(***************************************************************************)
(* Reading documents and override entries, for the properties below        *)
(***************************************************************************)
\* the value at a path of keys, Missing when there is none
RECURSIVE Get(_, _)
Get(n, keys) ==
    IF keys = <<>> THEN n
    ELSE IF n.t = "map" /\ keys[1] \in DOMAIN n.m THEN Get(n.m[keys[1]], Tail(keys))
    ELSE Missing

\* every path of keys of a document
RECURSIVE PathsOf(_)
PathsOf(n) ==
    IF n.t # "map" THEN {}
    ELSE UNION {{<<k>>} \cup {<<k>> \o q : q \in PathsOf(n.m[k])} : k \in DOMAIN n.m}

IsPrefix(p, q) == Len(p) <= Len(q) /\ SubSeq(q, 1, Len(p)) = p
Related(p, q) == IsPrefix(p, q) \/ IsPrefix(q, p)

\* the entry is one override: a single-entry mapping, or a string with a colon
Single(u) ==
    \/ u.form = "dict" /\ Len(u.items) = 1
    \/ u.form = "str" /\ HasChar(u.text, ":")
\* its dotted path, as keys, and its value text
PathOf(u) ==
    IF u.form = "dict" THEN Split(u.items[1][1], ".")
    ELSE Split(Strip(SubSeq(u.text, 1, IndexOf(u.text, ":") - 1)), ".")
ValueOf(u) ==
    IF u.form = "dict" THEN u.items[1][2]
    ELSE Strip(SubSeq(u.text, IndexOf(u.text, ":") + 1, Len(u.text)))
\* the paths an entry targets
Targets(u) ==
    IF u.form = "dict" THEN {Split(u.items[i][1], ".") : i \in DOMAIN u.items}
    ELSE IF Single(u) THEN {PathOf(u)}
    ELSE {}

LastUpdate == pups[Len(pups)]
Applied == ppc \in {"loop", "returned", "raised"} /\ pups # <<>>

\* the i-th modify entry has been processed: its record in the log
ModifyAt(i) == Len(settings.keep) + i
Processed(i) == ModifyAt(i) <= Len(log)
FetchFailed(e) == e.resp.status # "200"

(***************************************************************************)
(* Properties of the run of main                                           *)
(***************************************************************************)
\* C1: in the modify pass, when the fetch of an entry fails (404, another
\* non-200 status, a request exception), every later entry is still fetched
\* and, when its own fetch returns 200 and its patch returns a document, is
\* written.
C1_FetchFailureIsolated ==
    pc \in {"drift", "done"} =>
        \A i \in 1..Len(settings.modify) : \A j \in (i+1)..Len(settings.modify) :
            (Processed(i) /\ FetchFailed(log[ModifyAt(i)])) =>
                /\ Processed(j)
                /\ LET e == log[ModifyAt(j)]
                   IN (/\ e.resp.status = "200"
                       /\ apply_modifications(Text(e.resp.text), e.updates) \notin {None, TypeError})
                      => e.wrote

\* C2: the run ends with a nonzero exit status exactly when the credential is
\* missing, the settings file is missing or the settings document is invalid;
\* every other run completes all four passes and exits with zero.
C2_ExitStatus ==
    pc = "done" =>
        /\ (exit # 0) <=> (~token \/ settingsFile \in {"missing", "invalid"})
        /\ (token /\ settingsFile = "ok") => passes = {"unique", "keep", "modify", "drift"}

\* C3: every fetch that returns text leads to a write under the same name: a
\* keep entry is written with exactly the fetched text, whatever it is; a
\* modify entry whose patch does not end in ParseError is written with the
\* patched document.
C3_FetchedIsWritten ==
    \A k \in 1..Len(log) :
        LET e == log[k]
            patched == apply_modifications(Text(e.resp.text), e.updates)
        IN /\ (e.pass = "keep" /\ e.resp.status = "200")
                => (e.wrote /\ e.content = Text(e.resp.text))
           /\ (e.pass = "modify" /\ e.resp.status = "200" /\ patched # None)
                => (e.wrote /\ e.content = Dump(patched))

\* the entry was skipped: its fetch failed, or it is a modify entry whose
\* fetched text is empty or unparsable
Skipped(e) ==
    \/ FetchFailed(e)
    \/ e.pass = "modify" /\ RoundTripLoad(Text(e.resp.text)) \in {None, YamlError}

\* C4: processing a keep or modify entry that is skipped (fetch not found or
\* failed; for modify also fetched text empty or unparsable) writes nothing:
\* the local directory, and so the local file of that name, is left as it was.
C4_SkippedLeavesLocalCopy ==
    [][(Len(log') = Len(log) + 1 /\ Skipped(log'[Len(log')])) => files' = files]_vars

\* a skipped entry whose local copy exists
C4_Witness ==
    \E k \in 1..Len(log) :
        /\ Skipped(log[k])
        /\ files[log[k].name].kind = "file"
        /\ log[k].pass = "modify" /\ log[k].resp.status = "200"

HasWorkflowExtension(n) == n \in {"a.yaml", "b.yml", "c.yaml", "d.yaml"}
Declared == Range(settings.keep) \cup Range(settings.modify) \cup Range(settings.uniq)

Settled(j, p) ==
    \A k \in (j+1)..Len(pups) : \A q \in Targets(pups[k]) : ~Related(p, q)

\* no entry after the j-th targets the path itself
LastOnPath(j, p) == \A k \in (j+1)..Len(pups) : p \notin Targets(pups[k])

\* C6 as claimed: when two overrides target the same dotted path, the value at
\* that path in the returned document is the one set by the later override
\* (the last one on that path).
C6_AsClaimed ==
    (ppc = "returned" /\ pdoc # None) =>
        \A i \in 1..Len(pups) : \A j \in (i+1)..Len(pups) :
            (/\ Single(pups[i]) /\ Single(pups[j])
             /\ PathOf(pups[i]) = PathOf(pups[j])
             /\ LastOnPath(j, PathOf(pups[j])))
            => Get(pdoc, PathOf(pups[j])) = StoreValue(ValueOf(pups[j]))

\* C6: the overrides are applied in list order, each on the document left by
\* the one before: when two overrides target the same dotted path, the value
\* at the path is the one the later override sets, unless an override still
\* later in the list rewrites the path, a path above it or a path below it.
C6_LaterOverrideWins ==
    (ppc \in {"loop", "returned"} /\ pdoc # None) =>
        \A i \in 1..Len(pups) : \A j \in (i+1)..Len(pups) :
            (/\ Single(pups[i]) /\ Single(pups[j])
             /\ PathOf(pups[i]) = PathOf(pups[j])
             /\ Settled(j, PathOf(pups[j])))
            => Get(pdoc, PathOf(pups[j])) = StoreValue(ValueOf(pups[j]))

\* two overrides of one path with different values, the later one in place
C6_Witness ==
    /\ ppc = "returned"
    /\ \E i \in 1..Len(pups) : \E j \in (i+1)..Len(pups) :
          /\ Single(pups[i]) /\ Single(pups[j])
          /\ PathOf(pups[i]) = PathOf(pups[j])
          /\ StoreValue(ValueOf(pups[i])) # StoreValue(ValueOf(pups[j]))
          /\ Settled(j, PathOf(pups[j]))
          /\ Get(pdoc, PathOf(pups[j])) = StoreValue(ValueOf(pups[j]))

\* C7: an override whose value text begins with ${{ is stored unmodified: the
\* value at the target key is a string equal to the raw override text,
\* character for character.
C7_ExpressionStoredVerbatim ==
    (Applied /\ ppc # "raised" /\ Single(LastUpdate) /\ StartsWithExpr(ValueOf(LastUpdate))) =>
        /\ Get(pdoc, PathOf(LastUpdate)).t \in {"str", "plain"}
        /\ Get(pdoc, PathOf(LastUpdate)).s = ValueOf(LastUpdate)

\* the proper prefixes of a path
Above(p) == {SubSeq(p, 1, n) : n \in 1..(Len(p) - 1)}

\* every intermediate segment of the path is absent from the document or a mapping in it
Descendable(doc, p) ==
    /\ doc.t = "map"
    /\ \A r \in Above(p) : Get(doc, r) = Missing \/ Get(doc, r).t = "map"

\* C8: for a document (a mapping) and an override path whose intermediate
\* segments are each absent or an existing mapping, after the override the
\* value at the path is the override's value, every intermediate level that
\* was absent is a new mapping holding exactly the next segment, and every key
\* off the path keeps its value and no other key appears. In particular {}
\* with a.b.c = x gives a -> b -> c: x and nothing else.
C8_PathCreation ==
    (Applied /\ Single(LastUpdate) /\ Descendable(pprev, PathOf(LastUpdate))) =>
        LET p == PathOf(LastUpdate)
        IN /\ ppc # "raised"
           /\ Get(pdoc, p) = StoreValue(ValueOf(LastUpdate))
           /\ \A r \in Above(p) :
                 Get(pprev, r) = Missing =>
                     /\ Get(pdoc, r).t = "map"
                     /\ DOMAIN Get(pdoc, r).m = {p[Len(r) + 1]}
           /\ \A q \in PathsOf(pprev) \cup PathsOf(pdoc) :
                 ~Related(q, p) => Get(pdoc, q) = Get(pprev, q)
           /\ (pprev = EmptyMap /\ p = <<ka, kb, kc>>) =>
                 pdoc = Map(Put(<<>>, ka, Map(Put(<<>>, kb,
                            Map(Put(<<>>, kc, StoreValue(ValueOf(LastUpdate))))))))

\* {} patched with a.b.c = x
C8_Witness ==
    /\ Applied /\ ppc = "loop"
    /\ pprev = EmptyMap
    /\ LastUpdate = One(pABC, vx)
    /\ Get(pdoc, <<ka, kb, kc>>) = Plain(vx)

\* C9: applying the list to the original text again gives the same document,
\* and applying it to the patched output completes and leaves the value at
\* every targeted path as it was.
C9_Idempotent ==
    (ppc = "returned" /\ pdoc # None) =>
        /\ apply_modifications(ptext, pups) = pdoc
        /\ apply_modifications(Dump(pdoc), pups) \notin {TypeError, None}
        /\ \A k \in 1..Len(pups) : \A p \in Targets(pups[k]) :
              Get(apply_modifications(Dump(pdoc), pups), p) = Get(pdoc, p)

\* malformed, as the claim has it: a string without a colon, or neither a
\* single-entry mapping nor a string
MalformedAsClaimed(u) ==
    \/ u.form = "str" /\ ~HasChar(u.text, ":")
    \/ ~(u.form = "dict" /\ Len(u.items) = 1) /\ u.form # "str"

\* malformed: a string without a colon, or neither a mapping nor a string
Malformed(u) ==
    \/ u.form = "str" /\ ~HasChar(u.text, ":")
    \/ u.form \notin {"dict", "str"}

WellFormed(u) == ~Malformed(u)

\* C10 as claimed: an entry that is a string without a colon, or that is
\* neither a single-entry mapping nor a string, changes nothing in the document
\* and raises nothing.
C10_AsClaimed ==
    (Applied /\ MalformedAsClaimed(LastUpdate)) => (pdoc = pprev /\ ppc # "raised")

\* C10: an entry that is a string without a colon, or that is neither a mapping
\* nor a string, is skipped with a warning: it changes nothing in the document
\* and raises nothing, and the document is the one the other entries of the
\* list, before and after it, give when applied in order.
C10_MalformedSkipped ==
    /\ (Applied /\ Malformed(LastUpdate)) => (pdoc = pprev /\ ppc # "raised")
    /\ pwarn = Cardinality({k \in 1..Len(pups) : Malformed(pups[k])})
    /\ (ppc \in {"loop", "returned", "raised"} /\ pdoc # None) =>
          pdoc = ApplyAll(RoundTripLoad(ptext), SelectSeq(pups, WellFormed))

\* a malformed entry between two overrides that both took effect
C10_Witness ==
    /\ ppc = "returned" /\ Len(pups) = 3
    /\ WellFormed(pups[1]) /\ Malformed(pups[2]) /\ WellFormed(pups[3])
    /\ ApplyUpdate(RoundTripLoad(ptext), pups[1]) # RoundTripLoad(ptext)
    /\ pdoc # ApplyUpdate(RoundTripLoad(ptext), pups[1])
    /\ pwarn = 1

====
